---- MODULE Spec2Model ----
(***************************************************************************)
(* Farmers Marketplace (src/src/App.jsx): the App component's session      *)
(* state -- catalog, cart, RFQ list, currency, cart drawer -- and the      *)
(* handlers that change it.  Every handler is one atomic action: React     *)
(* runs one event handler at a time and flushes the state updates and the  *)
(* re-render before the next event is dispatched.                          *)
(*                                                                         *)
(* Spec explores the handlers of cart, RFQ list and catalog; SpecListing   *)
(* the search, category and sort controls and the filtered memo; SpecUI    *)
(* the cart under the controls of the page; SpecViewer the navigation and  *)
(* the model-viewer script with the wrapper mounted on the Home page.      *)
(*                                                                         *)
(* Numbers: prices, stock, MOQ and quantities are integers.  Ratings are   *)
(* kept in tenths (4.8 is 48).  Text typed into the product form is a      *)
(* sequence of one-character strings, parsed by Number below.              *)
(***************************************************************************)
EXTENDS Integers, Sequences, FiniteSets, TLC

VARIABLES products, cart, cartOpen, currency, activeTab, rfqs, alertMsg,
          lastOp, sinceEmpty, submitLog,
          q, category, sort,
          page, mvScript, ownsScript, scriptLoaded, error, modelError

\* the listing controls of Filters
listingVars == <<q, category, sort>>

\* the page shown, the document's mv-script element, and the state of the
\* ModelViewerWrapper instance mounted on the Home page
viewerVars == <<page, mvScript, ownsScript, scriptLoaded, error, modelError>>

vars == <<products, cart, cartOpen, currency, activeTab, rfqs, alertMsg,
          lastOp, sinceEmpty, submitLog, listingVars, viewerVars>>

----------------------------------------------------------------------------
(* Bounds of the exploration *)

\* cart operations since the cart was last empty + RFQs + saved products
MaxSize == 3

\* products saved while the listing controls are explored
MaxListed == 1

----------------------------------------------------------------------------
(* Config and mock data *)

INREquivPerUSD == 83

CURRENCIES == <<"INR", "USD">>

Tier(min, priceINR) == [min |-> min, priceINR |-> priceINR]

initialProducts ==
  << [id |-> "p1", name |-> "Alphonso Mangoes (1kg)", priceINR |-> 299,
      stock |-> 4200, moq |-> 50, category |-> "Fruits", farmerId |-> "f1",
      rating |-> 48,
      bulkTiers |-> <<Tier(50, 285), Tier(200, 270), Tier(1000, 255)>>],
     [id |-> "p2", name |-> "Organic Tomatoes (1kg)", priceINR |-> 89,
      stock |-> 9000, moq |-> 100, category |-> "Vegetables", farmerId |-> "f3",
      rating |-> 46,
      bulkTiers |-> <<Tier(100, 84), Tier(500, 80), Tier(2500, 76)>>],
     [id |-> "p3", name |-> "Fresh Cow Milk (1L)", priceINR |-> 75,
      stock |-> 12000, moq |-> 200, category |-> "Dairy", farmerId |-> "f2",
      rating |-> 44,
      bulkTiers |-> <<Tier(200, 72), Tier(1000, 69), Tier(5000, 66)>>],
     [id |-> "p4", name |-> "Basmati Rice (5kg)", priceINR |-> 649,
      stock |-> 3000, moq |-> 20, category |-> "Grains", farmerId |-> "f3",
      rating |-> 47,
      bulkTiers |-> <<Tier(20, 630), Tier(200, 610), Tier(1000, 595)>>],
     [id |-> "p5", name |-> "Free-range Eggs (12)", priceINR |-> 145,
      stock |-> 6000, moq |-> 50, category |-> "Dairy", farmerId |-> "f2",
      rating |-> 45,
      bulkTiers |-> <<Tier(50, 140), Tier(500, 135), Tier(3000, 128)>>] >>

----------------------------------------------------------------------------
(* Utilities *)

Range(s) == {s[i] : i \in DOMAIN s}

MathMax(a, b) == IF a >= b THEN a ELSE b

\* x || d on a number x that is never NaN: 0 is the only falsy value
OrElse(x, d) == IF x = 0 THEN d ELSE x

\* toLocaleString(..., {style: "currency"}) prints two fraction digits; the
\* result is kept as the currency and the amount in minor units.  amountINR*100/83
\* is never half-way between two cents (200*a = 83*(2k+1) has no solution), so
\* rounding to the nearest cent is floor((200*a + 83) / 166).
toCurrency(amountINR, cur) ==
  IF cur = "USD"
    THEN [currency |-> "USD",
          minor |-> (200 * amountINR + INREquivPerUSD) \div (2 * INREquivPerUSD)]
    ELSE [currency |-> "INR", minor |-> 100 * amountINR]

----------------------------------------------------------------------------
(* Number(text) on the text of a form field *)

Digits == <<"0", "1", "2", "3", "4", "5", "6", "7", "8", "9">>

IsDigit(c) == \E d \in DOMAIN Digits : Digits[d] = c

DigitVal(c) == (CHOOSE d \in DOMAIN Digits : Digits[d] = c) - 1

RECURSIVE DecimalVal(_)
DecimalVal(s) ==
  IF s = <<>> THEN 0
  ELSE 10 * DecimalVal(SubSeq(s, 1, Len(s) - 1)) + DigitVal(s[Len(s)])

AllDigits(s) == s # <<>> /\ \A i \in DOMAIN s : IsDigit(s[i])

\* Number(""), Number("20"), Number("-3"), Number("abc"): the empty string is 0,
\* an optionally signed decimal is its value, anything else is NaN.
Number(s) ==
  IF s = <<>> THEN [nan |-> FALSE, val |-> 0]
  ELSE IF AllDigits(s) THEN [nan |-> FALSE, val |-> DecimalVal(s)]
  ELSE IF s[1] = "-" /\ AllDigits(Tail(s))
    THEN [nan |-> FALSE, val |-> 0 - DecimalVal(Tail(s))]
  ELSE [nan |-> TRUE, val |-> 0]

\* Number(s) || d : NaN and 0 are falsy
NumberOr(s, d) ==
  LET n == Number(s) IN IF n.nan \/ n.val = 0 THEN d ELSE n.val

\* Math.floor(x * 0.95) for an integer x
Floor95(x) == (95 * x) \div 100

----------------------------------------------------------------------------
(* Inputs *)

\* Math.random().toString(36).slice(2): a base-36 string nobody checks against
\* the identifiers already in use
RandIds == {"p1", "k3"}

\* setQty's second argument
QtyInputs == {-1, 0, 3}

\* The FarmerForm's fields when Save Product is pressed.  moq starts as the
\* number 10, and Number(10) = Number("10").
FormInputs ==
  { [name |-> "", priceINR |-> <<"0">>, stock |-> <<>>,
     moq |-> <<"1", "0">>, category |-> "Fruits"],
    [name |-> "Goat Milk (1L)", priceINR |-> <<"2", "0">>, stock |-> <<"5">>,
     moq |-> <<>>, category |-> "Dairy"],
    [name |-> "Red Onions (1kg)", priceINR |-> <<>>, stock |-> <<"a">>,
     moq |-> <<"-", "3">>, category |-> "Vegetables"] }

\* The form saved while the listing controls are explored: a second milk, and
\* a product whose name has no space in it and whose price is that of the
\* Fresh Cow Milk
ListingForms ==
  { [name |-> "Goat Milk (1L)", priceINR |-> <<"2", "0">>, stock |-> <<"5">>,
     moq |-> <<>>, category |-> "Dairy"],
    [name |-> "Kale", priceINR |-> <<"7", "5">>, stock |-> <<"4", "0">>,
     moq |-> <<"5">>, category |-> "Vegetables"] }

\* What the RFQ modal hands to submitRFQ
RfqInputs ==
  { [productId |-> "p2", qty |-> 100, location |-> "Pune", target |-> "",
     notes |-> ""],
    [productId |-> "p3", qty |-> 0, location |-> "", target |-> "70",
     notes |-> "crates"] }

----------------------------------------------------------------------------
(* Cart *)

\* { ...p, qty }
Line(p, qty) ==
  [id |-> p.id, name |-> p.name, priceINR |-> p.priceINR, stock |-> p.stock,
   moq |-> p.moq, category |-> p.category, farmerId |-> p.farmerId,
   rating |-> p.rating, bulkTiers |-> p.bulkTiers, qty |-> qty]

\* items.reduce((s, it) => s + it.priceINR * it.qty, 0)
RECURSIVE Reduce(_, _)
Reduce(s, items) ==
  IF items = <<>> THEN s
  ELSE Reduce(s + Head(items).priceINR * Head(items).qty, Tail(items))

\* a total priced by the bulk tier the quantity reaches
RECURSIVE TieredPrice(_, _, _)
TieredPrice(tiers, qty, price) ==
  IF tiers = <<>> THEN price
  ELSE TieredPrice(Tail(tiers), qty,
                   IF Head(tiers).min <= qty THEN Head(tiers).priceINR ELSE price)

RECURSIVE CartTotalTiered(_)
CartTotalTiered(items) ==
  IF items = <<>> THEN 0
  ELSE TieredPrice(Head(items).bulkTiers, Head(items).qty, Head(items).priceINR)
         * Head(items).qty + CartTotalTiered(Tail(items))

\* CartDrawer's totalINR
CartTotal(items) == Reduce(0, items)

\* an updater that never looks for an existing line
AddUpdaterDup(prev, p) == Append(prev, Line(p, MathMax(1, OrElse(p.moq, 1))))

\* an updater that starts every new line at quantity 1
AddUpdaterNoMoq(prev, p) ==
  IF \E i \in DOMAIN prev : prev[i].id = p.id
    THEN [i \in DOMAIN prev |->
            IF prev[i].id = p.id THEN [prev[i] EXCEPT !.qty = @ + 1] ELSE prev[i]]
    ELSE Append(prev, Line(p, 1))

\* the updater addToCart passes to setCart
AddUpdater(prev, p) ==
  IF \E i \in DOMAIN prev : prev[i].id = p.id
    THEN [i \in DOMAIN prev |->
            IF prev[i].id = p.id THEN [prev[i] EXCEPT !.qty = @ + 1] ELSE prev[i]]
    ELSE Append(prev, Line(p, MathMax(1, OrElse(p.moq, 1))))

\* an updater that clamps the quantity as the drawer's minus button does
SetQtyClamped(prev, id, qty) ==
  [i \in DOMAIN prev |->
     IF prev[i].id = id THEN [prev[i] EXCEPT !.qty = MathMax(1, qty)] ELSE prev[i]]

\* the updater setQty passes to setCart
SetQtyUpdater(prev, id, qty) ==
  [i \in DOMAIN prev |->
     IF prev[i].id = id THEN [prev[i] EXCEPT !.qty = qty] ELSE prev[i]]

\* a minus button that takes one off whatever the quantity is
MinusQtyUnclamped(qty) == qty - 1

\* the quantity the drawer's minus button passes to onQty
MinusQty(qty) == MathMax(1, qty - 1)

\* the quantity the drawer's plus button passes to onQty
PlusQty(qty) == qty + 1

\* a filter with the test inverted
RemoveInverted(prev, id) == SelectSeq(prev, LAMBDA x : x.id = id)

\* the updater removeItem passes to setCart
RemoveUpdater(prev, id) == SelectSeq(prev, LAMBDA x : x.id # id)

\* a handler memoised at the first render keeps reading that render's cart
StaleClosureCart(current) == <<>>

\* the cart that checkout's closure reads: the one of the latest render, and
\* every handler's updates are rendered before the next handler runs
ClosureCart(current) == current

\* clearing only a cart that was worth something
ClearedCartIfPaid(prev) == IF Reduce(0, prev) > 0 THEN <<>> ELSE prev

\* setCart([])
ClearedCart(prev) == <<>>

----------------------------------------------------------------------------
(* Listing: the filtered memo of App *)

CATEGORIES == <<"All", "Fruits", "Vegetables", "Dairy", "Grains">>

\* the values of the sort select
SORTS == <<"relevance", "priceAsc", "priceDesc", "ratingDesc">>

\* The characters of the product names in use.  A name is kept as one string
\* in the product records; the search reads it character by character.
Chars ==
  ("Alphonso Mangoes (1kg)" :>
      <<"A", "l", "p", "h", "o", "n", "s", "o", " ", "M", "a", "n", "g",
        "o", "e", "s", " ", "(", "1", "k", "g", ")">>)
  @@ ("Organic Tomatoes (1kg)" :>
      <<"O", "r", "g", "a", "n", "i", "c", " ", "T", "o", "m", "a", "t",
        "o", "e", "s", " ", "(", "1", "k", "g", ")">>)
  @@ ("Fresh Cow Milk (1L)" :>
      <<"F", "r", "e", "s", "h", " ", "C", "o", "w", " ", "M", "i", "l",
        "k", " ", "(", "1", "L", ")">>)
  @@ ("Basmati Rice (5kg)" :>
      <<"B", "a", "s", "m", "a", "t", "i", " ", "R", "i", "c", "e", " ",
        "(", "5", "k", "g", ")">>)
  @@ ("Free-range Eggs (12)" :>
      <<"F", "r", "e", "e", "-", "r", "a", "n", "g", "e", " ", "E", "g",
        "g", "s", " ", "(", "1", "2", ")">>)
  @@ ("New Product" :>
      <<"N", "e", "w", " ", "P", "r", "o", "d", "u", "c", "t">>)
  @@ ("Goat Milk (1L)" :>
      <<"G", "o", "a", "t", " ", "M", "i", "l", "k", " ", "(", "1", "L",
        ")">>)
  @@ ("Red Onions (1kg)" :>
      <<"R", "e", "d", " ", "O", "n", "i", "o", "n", "s", " ", "(", "1",
        "k", "g", ")">>)
  @@ ("Kale" :>
      <<"K", "a", "l", "e">>)

UpperCase == <<"A", "B", "C", "D", "E", "F", "G", "H", "I", "J", "K", "L",
             "M", "N", "O", "P", "Q", "R", "S", "T", "U", "V", "W", "X",
             "Y", "Z">>

LowerCase == <<"a", "b", "c", "d", "e", "f", "g", "h", "i", "j", "k", "l",
             "m", "n", "o", "p", "q", "r", "s", "t", "u", "v", "w", "x",
             "y", "z">>

LowerChar(c) ==
  IF \E i \in DOMAIN UpperCase : UpperCase[i] = c
    THEN LowerCase[CHOOSE i \in DOMAIN UpperCase : UpperCase[i] = c]
    ELSE c

\* a comparison that leaves the letters as typed
KeepCase(s) == s

\* String.prototype.toLowerCase
toLowerCase(s) == [i \in DOMAIN s |-> LowerChar(s[i])]

\* String.prototype.trim: white space off both ends
RECURSIVE trim(_)
trim(s) ==
  IF s = <<>> THEN s
  ELSE IF Head(s) = " " THEN trim(Tail(s))
  ELSE IF s[Len(s)] = " " THEN trim(SubSeq(s, 1, Len(s) - 1))
  ELSE s

\* String.prototype.includes
includes(s, t) ==
  \E i \in 0..(Len(s) - Len(t)) : SubSeq(s, i + 1, i + Len(t)) = t

\* a comparator whose priceDesc case was copied from priceAsc and not turned
compareCopied(srt, a, b) ==
  CASE srt = "priceAsc" -> a.priceINR - b.priceINR
    [] srt = "priceDesc" -> a.priceINR - b.priceINR
    [] srt = "ratingDesc" -> b.rating - a.rating

\* the comparator of each case of the switch
compare(srt, a, b) ==
  CASE srt = "priceAsc" -> a.priceINR - b.priceINR
    [] srt = "priceDesc" -> b.priceINR - a.priceINR
    [] srt = "ratingDesc" -> b.rating - a.rating

\* an insertion that puts x in front of the elements it compares equal to
InsertFirst(sorted, x, srt) ==
  SelectSeq(sorted, LAMBDA e : compare(srt, e, x) < 0) \o <<x>>
    \o SelectSeq(sorted, LAMBDA e : compare(srt, e, x) >= 0)

\* x, which came later in the array, goes behind every element that compares
\* less than or equal to it: Array.prototype.sort is stable
Insert(sorted, x, srt) ==
  SelectSeq(sorted, LAMBDA e : compare(srt, e, x) <= 0) \o <<x>>
    \o SelectSeq(sorted, LAMBDA e : compare(srt, e, x) > 0)

\* arr.sort(comparator)
RECURSIVE arraySort(_, _)
arraySort(arr, srt) ==
  IF arr = <<>> THEN <<>>
  ELSE Insert(arraySort(SubSeq(arr, 1, Len(arr) - 1), srt), arr[Len(arr)], srt)

\* let arr = products: the same array under a second name
SpreadShared(prods) == [arr |-> prods, shared |-> TRUE]

\* let arr = [...products]: a new array with the same elements
Spread(prods) == [arr |-> prods, shared |-> FALSE]

\* The body of the filtered memo.  sort() works in place, so the result says
\* both what the memo returns and what the products array holds afterwards.
Filtered(prods, qq, cat, srt) ==
  LET a0 == Spread(prods)
      a1 == IF trim(qq) # <<>>
              THEN LET t == toLowerCase(qq) IN
                   [arr |-> SelectSeq(a0.arr,
                              LAMBDA p : includes(toLowerCase(Chars[p.name]), t)),
                    shared |-> FALSE]
              ELSE a0
      a2 == IF cat # "All"
              THEN [arr |-> SelectSeq(a1.arr, LAMBDA p : p.category = cat),
                    shared |-> FALSE]
              ELSE a1
      a3 == IF srt \in {"priceAsc", "priceDesc", "ratingDesc"}
              THEN [arr |-> arraySort(a2.arr, srt), shared |-> a2.shared]
              ELSE a2
  IN [arr |-> a3.arr, products |-> IF a3.shared THEN a3.arr ELSE prods]

filtered == Filtered(products, q, category, sort).arr

\* text typed into the search box
QueryInputs ==
  { <<>>, <<"m", "i", "l", "k">>, <<" ">>, <<"K", "G">> }

----------------------------------------------------------------------------
(* ModelViewerWrapper *)

PAGES == <<"Home", "Shop", "Services", "Pricing", "About", "Contact">>

\* The first effect of a mounting wrapper, given the state of the document's
\* mv-script element ("none" when there is no such element): it creates the
\* element and waits for its onload/onerror, or it takes an element that is
\* there for a loaded script.
MountEffect(s) ==
  IF s = "none"
    THEN [mvScript |-> "loading", ownsScript |-> TRUE, scriptLoaded |-> FALSE]
    ELSE [mvScript |-> s, ownsScript |-> FALSE, scriptLoaded |-> TRUE]

\* what the wrapper renders
View ==
  IF error THEN "fallback" ELSE IF ~scriptLoaded THEN "loading" ELSE "3d"

----------------------------------------------------------------------------
(* Product form *)

handleSubmit(form, id) ==
  [id |-> id,
   name |-> IF form.name = "" THEN "New Product" ELSE form.name,
   priceINR |-> NumberOr(form.priceINR, 0),
   stock |-> NumberOr(form.stock, 0),
   moq |-> NumberOr(form.moq, 1),
   category |-> form.category,
   farmerId |-> "f1",
   rating |-> 46,
   bulkTiers |-> << Tier(NumberOr(form.moq, 1),
                         MathMax(1, Floor95(NumberOr(form.priceINR, 1)))) >>]

\* an updater that puts the new product behind the others
SaveAppended(prev, newP) == Append(prev, newP)

\* the updater saveProduct passes to setProducts
SaveUpdater(prev, newP) == <<newP>> \o prev

----------------------------------------------------------------------------
(* State *)

NoAlert == [kind |-> "none"]

NoOp == [op |-> "none", qty |-> 0, hit |-> FALSE]

\* history kept for the properties: the number of cart operations since the
\* cart was last empty, and the products added since then while nothing but
\* additions happened (clean)
Fresh == [n |-> 0, adds |-> <<>>, clean |-> TRUE]

Track(newCart, adds, clean) ==
  IF newCart = <<>> THEN Fresh
  ELSE [n |-> sinceEmpty.n + 1,
        adds |-> IF clean THEN adds ELSE <<>>,
        clean |-> clean]

Size == sinceEmpty.n + Len(rfqs) + (Len(products) - Len(initialProducts))

Init ==
  /\ products = initialProducts
  /\ cart = <<>>
  /\ cartOpen = FALSE
  /\ currency = "INR"
  /\ activeTab = "Shop"
  /\ rfqs = <<>>
  /\ alertMsg = NoAlert
  /\ lastOp = NoOp
  /\ sinceEmpty = Fresh
  /\ submitLog = <<>>
  /\ q = <<>>
  /\ category = "All"
  /\ sort = "relevance"
  /\ page = "Home"
  /\ mvScript = MountEffect("none").mvScript
  /\ ownsScript = MountEffect("none").ownsScript
  /\ scriptLoaded = MountEffect("none").scriptLoaded
  /\ error = FALSE
  /\ modelError = FALSE

----------------------------------------------------------------------------
(* Handlers *)

addToCart(p) ==
  /\ Size < MaxSize
  /\ cart' = AddUpdater(cart, p)
  /\ cartOpen' = TRUE
  /\ alertMsg' = NoAlert
  /\ lastOp' = [op |-> "add", qty |-> 0,
                hit |-> \E i \in DOMAIN cart : cart[i].id = p.id]
  /\ sinceEmpty' = Track(cart', Append(sinceEmpty.adds, p), sinceEmpty.clean)
  /\ UNCHANGED <<products, currency, activeTab, rfqs, submitLog>>
  /\ UNCHANGED <<listingVars, viewerVars>>

setQty(id, qty) ==
  /\ Size < MaxSize
  /\ cart' = SetQtyUpdater(cart, id, qty)
  /\ alertMsg' = NoAlert
  /\ lastOp' = [op |-> "setQty", qty |-> qty,
                hit |-> \E i \in DOMAIN cart : cart[i].id = id]
  /\ sinceEmpty' = Track(cart', <<>>, FALSE)
  /\ UNCHANGED <<products, cartOpen, currency, activeTab, rfqs, submitLog>>
  /\ UNCHANGED <<listingVars, viewerVars>>

removeItem(id) ==
  /\ Size < MaxSize
  /\ cart' = RemoveUpdater(cart, id)
  /\ alertMsg' = NoAlert
  /\ lastOp' = [op |-> "remove", qty |-> 0,
                hit |-> \E i \in DOMAIN cart : cart[i].id = id]
  /\ sinceEmpty' = Track(cart', <<>>, FALSE)
  /\ UNCHANGED <<products, cartOpen, currency, activeTab, rfqs, submitLog>>
  /\ UNCHANGED <<listingVars, viewerVars>>

checkout ==
  LET totalINR == Reduce(0, ClosureCart(cart)) IN
  /\ alertMsg' = [kind |-> "checkout", totalINR |-> totalINR,
                  shown |-> toCurrency(totalINR, currency)]
  /\ cart' = ClearedCart(cart)
  /\ cartOpen' = FALSE
  /\ lastOp' = [op |-> "checkout", qty |-> 0, hit |-> cart # <<>>]
  /\ sinceEmpty' = Track(cart', <<>>, FALSE)
  /\ UNCHANGED <<products, currency, activeTab, rfqs, submitLog>>
  /\ UNCHANGED <<listingVars, viewerVars>>

\* new Date().toISOString(), counted in requests: alert() holds the page until
\* it is dismissed, so the clock has moved on since the newest request
Now == IF rfqs = <<>> THEN 1 ELSE rfqs[1].date + 1

submitRFQ(data, id, date) ==
  /\ Size < MaxSize
  /\ LET rfq == [id |-> id, date |-> date, productId |-> data.productId,
                 qty |-> data.qty, location |-> data.location,
                 target |-> data.target, notes |-> data.notes]
     IN /\ rfqs' = <<rfq>> \o rfqs
        /\ submitLog' = Append(submitLog, data)
  /\ alertMsg' = [kind |-> "rfq"]
  /\ lastOp' = [op |-> "submitRFQ", qty |-> 0, hit |-> FALSE]
  /\ UNCHANGED <<products, cart, cartOpen, currency, activeTab, sinceEmpty>>
  /\ UNCHANGED <<listingVars, viewerVars>>

\* FarmerForm.handleSubmit -> onSave = saveProduct; the form is on the Farmer
\* Dashboard tab.  The new products array makes the filtered memo run again.
saveProduct(newP) ==
  /\ activeTab = "Farmer Dashboard"
  /\ Size < MaxSize
  /\ products' = Filtered(SaveUpdater(products, newP), q, category, sort).products
  /\ activeTab' = "Shop"
  /\ alertMsg' = NoAlert
  /\ lastOp' = [op |-> "saveProduct", qty |-> 0, hit |-> FALSE]
  /\ UNCHANGED <<cart, cartOpen, currency, rfqs, sinceEmpty, submitLog>>
  /\ UNCHANGED <<listingVars, viewerVars>>

setActiveTab(t) ==
  /\ activeTab' = t
  /\ alertMsg' = NoAlert
  /\ UNCHANGED <<products, cart, cartOpen, currency, rfqs, lastOp, sinceEmpty,
                 submitLog>>
  /\ UNCHANGED <<listingVars, viewerVars>>

setCurrency(c) ==
  /\ currency' = c
  /\ alertMsg' = NoAlert
  /\ UNCHANGED <<products, cart, cartOpen, activeTab, rfqs, lastOp, sinceEmpty,
                 submitLog>>
  /\ UNCHANGED <<listingVars, viewerVars>>

setCartOpen(b) ==
  /\ cartOpen' = b
  /\ alertMsg' = NoAlert
  /\ UNCHANGED <<products, cart, currency, activeTab, rfqs, lastOp, sinceEmpty,
                 submitLog>>
  /\ UNCHANGED <<listingVars, viewerVars>>

\* identifiers the drawer's buttons can pass, and one that no line has
NoSuchId == "zz"

IdInputs == {cart[i].id : i \in DOMAIN cart} \cup {NoSuchId}

Next ==
  \/ \E p \in Range(products) : addToCart(p)
  \/ \E id \in IdInputs, qty \in QtyInputs : setQty(id, qty)
  \/ \E id \in IdInputs : removeItem(id)
  \/ checkout
  \/ \E data \in RfqInputs, id \in RandIds : submitRFQ(data, id, Now)
  \/ \E form \in FormInputs, id \in RandIds : saveProduct(handleSubmit(form, id))
  \/ \E t \in {"Buyer Dashboard", "Farmer Dashboard"} : setActiveTab(t)
  \/ \E c \in Range(CURRENCIES) : setCurrency(c)
  \/ \E b \in BOOLEAN : setCartOpen(b)

Spec == Init /\ [][Next]_vars

----------------------------------------------------------------------------
(* The listing controls.  Each setter changes a dependency of the filtered *)
(* memo, which runs again in the render that follows.                      *)

setQ(text) ==
  /\ q' = text
  /\ products' = Filtered(products, q', category, sort).products
  /\ alertMsg' = NoAlert
  /\ lastOp' = [op |-> "setQ", qty |-> 0, hit |-> FALSE]
  /\ UNCHANGED <<cart, cartOpen, currency, activeTab, rfqs, sinceEmpty,
                 submitLog, category, sort, viewerVars>>

setCategory(c) ==
  /\ category' = c
  /\ products' = Filtered(products, q, category', sort).products
  /\ alertMsg' = NoAlert
  /\ lastOp' = [op |-> "setCategory", qty |-> 0, hit |-> FALSE]
  /\ UNCHANGED <<cart, cartOpen, currency, activeTab, rfqs, sinceEmpty,
                 submitLog, q, sort, viewerVars>>

\* hit: the listing was sorted by price before
setSort(k) ==
  /\ sort' = k
  /\ products' = Filtered(products, q, category, sort').products
  /\ alertMsg' = NoAlert
  /\ lastOp' = [op |-> "setSort", qty |-> 0,
                hit |-> sort \in {"priceAsc", "priceDesc"}]
  /\ UNCHANGED <<cart, cartOpen, currency, activeTab, rfqs, sinceEmpty,
                 submitLog, q, category, viewerVars>>

Saved == Len(products) - Len(initialProducts)

NextListing ==
  \/ \E text \in QueryInputs : setQ(text)
  \/ \E c \in Range(CATEGORIES) : setCategory(c)
  \/ \E k \in Range(SORTS) : setSort(k)
  \/ /\ Saved < MaxListed
     /\ \E form \in ListingForms, id \in RandIds :
          saveProduct(handleSubmit(form, id))
  \/ \E t \in {"Buyer Dashboard", "Farmer Dashboard"} : setActiveTab(t)

SpecListing == Init /\ [][NextListing]_vars

----------------------------------------------------------------------------
(* The cart worked through the controls of the page only: Add on a product *)
(* card, plus, minus and Remove on a cart line, Proceed to Checkout, which  *)
(* is disabled while the cart is empty.                                     *)

NextUI ==
  \/ \E p \in Range(filtered) : addToCart(p)
  \/ \E i \in DOMAIN cart : setQty(cart[i].id, MinusQty(cart[i].qty))
  \/ \E i \in DOMAIN cart : setQty(cart[i].id, PlusQty(cart[i].qty))
  \/ \E i \in DOMAIN cart : removeItem(cart[i].id)
  \/ cart # <<>> /\ checkout
  \/ \E form \in FormInputs, id \in RandIds : saveProduct(handleSubmit(form, id))
  \/ \E t \in {"Buyer Dashboard", "Farmer Dashboard"} : setActiveTab(t)

SpecUI == Init /\ [][NextUI]_vars

----------------------------------------------------------------------------
(* Navigation and the model-viewer script.  Hero3D, and the wrapper in it, *)
(* is mounted while the page is Home.                                       *)

setPage(p) ==
  /\ page' = p
  /\ IF p = "Home" /\ page # "Home"
       THEN \* a new wrapper mounts and its effects run
            /\ mvScript' = MountEffect(mvScript).mvScript
            /\ ownsScript' = MountEffect(mvScript).ownsScript
            /\ scriptLoaded' = MountEffect(mvScript).scriptLoaded
            /\ error' = FALSE
            /\ modelError' = FALSE
       ELSE IF p # "Home" /\ page = "Home"
         THEN \* the wrapper unmounts; the script element stays in the body
              /\ ownsScript' = FALSE
              /\ scriptLoaded' = FALSE
              /\ error' = FALSE
              /\ modelError' = FALSE
              /\ UNCHANGED mvScript
         ELSE UNCHANGED <<mvScript, ownsScript, scriptLoaded, error, modelError>>
  /\ alertMsg' = NoAlert
  /\ UNCHANGED <<products, cart, cartOpen, currency, activeTab, rfqs, lastOp,
                 sinceEmpty, submitLog, listingVars>>

\* s.onload: the script has run and model-viewer is defined.  The handler sets
\* the state of the wrapper that created the element, if it is still mounted.
ScriptOnload ==
  /\ mvScript = "loading"
  /\ mvScript' = "loaded"
  /\ scriptLoaded' = (scriptLoaded \/ ownsScript)
  /\ alertMsg' = NoAlert
  /\ UNCHANGED <<products, cart, cartOpen, currency, activeTab, rfqs, lastOp,
                 sinceEmpty, submitLog, listingVars, page, ownsScript, error,
                 modelError>>

\* s.onerror: the script could not be fetched or run
ScriptOnerror ==
  /\ mvScript = "loading"
  /\ mvScript' = "failed"
  /\ error' = (error \/ ownsScript)
  /\ alertMsg' = NoAlert
  /\ UNCHANGED <<products, cart, cartOpen, currency, activeTab, rfqs, lastOp,
                 sinceEmpty, submitLog, listingVars, page, ownsScript,
                 scriptLoaded, modelError>>

\* onError: the rendered model-viewer element, which the loaded script has
\* defined, dispatches "error" to the listener of the second effect
onError ==
  /\ page = "Home" /\ View = "3d" /\ mvScript = "loaded"
  /\ error' = TRUE
  /\ modelError' = TRUE
  /\ alertMsg' = NoAlert
  /\ UNCHANGED <<products, cart, cartOpen, currency, activeTab, rfqs, lastOp,
                 sinceEmpty, submitLog, listingVars, page, mvScript, ownsScript,
                 scriptLoaded>>

NextViewer ==
  \/ \E p \in Range(PAGES) : setPage(p)
  \/ ScriptOnload
  \/ ScriptOnerror
  \/ onError
  \/ \E c \in Range(CURRENCIES) : setCurrency(c)
  \/ \E b \in BOOLEAN : setCartOpen(b)
  \/ /\ page = "Home"
     /\ \E t \in {"Buyer Dashboard", "Farmer Dashboard"} : setActiveTab(t)

\* The browser ends every fetch it has started: a script element that is
\* loading gets its load event or its error event.
SpecViewer ==
  Init /\ [][NextViewer]_vars /\ WF_vars(ScriptOnload \/ ScriptOnerror)

----------------------------------------------------------------------------
(* Properties *)

HasLine(c, id) == \E i \in DOMAIN c : c[i].id = id

\* sum of stored price times quantity, taken from the last line back
RECURSIVE SumLines(_)
SumLines(c) ==
  IF c = <<>> THEN 0
  ELSE SumLines(SubSeq(c, 1, Len(c) - 1)) + c[Len(c)].priceINR * c[Len(c)].qty

\* C1: in every reachable state the cart holds at most one line per product
\* identifier, also when two catalog products share an identifier.
C1_OneLinePerId ==
  \A i, j \in DOMAIN cart : cart[i].id = cart[j].id => i = j

\* a product was added whose identifier a line of another product already had
C1_Witness ==
  /\ lastOp.op = "add" /\ lastOp.hit
  /\ \E p \in Range(products) :
       \E i \in DOMAIN cart : cart[i].id = p.id /\ cart[i].name # p.name

AddPost(c, c2, p) ==
  IF HasLine(c, p.id)
    THEN /\ Len(c2) = Len(c)
         /\ \A i \in DOMAIN c :
              IF c[i].id = p.id
                THEN c2[i] = [c[i] EXCEPT !.qty = c[i].qty + 1]
                ELSE c2[i] = c[i]
    ELSE /\ Len(c2) = Len(c) + 1
         /\ SubSeq(c2, 1, Len(c)) = c
         /\ c2[Len(c2)] = Line(p, IF p.moq > 1 THEN p.moq ELSE 1)

\* C2: add(product) on a cart with a line for product.id raises that line's
\* quantity by exactly 1 and changes nothing else; on a cart without one it
\* appends one line with quantity max(1, product.moq) and keeps the others.
C2_AddEffect ==
  [][\A p \in Range(products) : addToCart(p) => AddPost(cart, cart', p)]_vars

\* an add raised the first of two lines in place
C2_Witness ==
  /\ lastOp.op = "add" /\ lastOp.hit /\ Len(cart) = 2
  /\ cart[1].qty = MathMax(1, cart[1].moq) + 1

AddedOnce == sinceEmpty.clean /\ Len(sinceEmpty.adds) = 1

AddedTwice ==
  /\ sinceEmpty.clean /\ Len(sinceEmpty.adds) = 2
  /\ sinceEmpty.adds[1] = sinceEmpty.adds[2]

\* C3 as stated: adding P twice to an empty cart yields exactly one cart line,
\* and that line has quantity 2.
C3_Original == AddedTwice => Len(cart) = 1 /\ cart[1].qty = 2

\* C3 as amended: adding P twice to an empty cart yields exactly one cart line,
\* and that line has quantity max(1, P.moq) + 1.
C3_TwiceOneLine ==
  AddedTwice =>
    /\ Len(cart) = 1
    /\ cart[1] = Line(sinceEmpty.adds[1],
                      (IF sinceEmpty.adds[1].moq > 1 THEN sinceEmpty.adds[1].moq ELSE 1) + 1)

\* a product with an MOQ above 1 was added twice to the empty cart
C3_Witness == AddedTwice /\ sinceEmpty.adds[1].moq > 1 /\ cart[1].qty > 2

\* C4: after add(P) to an empty cart and no later quantity change the cart
\* total is P's base price times max(1, P.moq), never a bulk-tier price;
\* Tomatoes (base 89, MOQ 100) give one line, quantity 100, total 8900.
C4_TotalAfterAdd ==
  AddedOnce =>
    LET P == sinceEmpty.adds[1] IN
      /\ Len(cart) = 1
      /\ CartTotal(cart) = P.priceINR * (IF P.moq > 1 THEN P.moq ELSE 1)
      /\ P = initialProducts[2] => cart[1].qty = 100 /\ CartTotal(cart) = 8900

\* Tomatoes were added to the empty cart
C4_Witness ==
  AddedOnce /\ sinceEmpty.adds[1] = initialProducts[2] /\ lastOp.op = "add"

\* C5: checkout can run in every state, and it leaves the cart with zero
\* lines, a total of 0 and the cart drawer closed.
C5_CheckoutEmpties ==
  /\ [](ENABLED checkout)
  /\ [][checkout => cart' = <<>> /\ CartTotal(cart') = 0 /\ cartOpen' = FALSE]_vars

\* checkout has just cleared a cart that had lines
C5_Witness ==
  /\ lastOp.op = "checkout" /\ lastOp.hit /\ alertMsg.kind = "checkout"
  /\ cart = <<>> /\ cartOpen = FALSE

\* C6: whatever add, setQty and remove events came before it, checkout reports
\* the sum of stored price times quantity over exactly the lines it clears.
C6_ReportedTotal ==
  [][checkout =>
       /\ alertMsg'.kind = "checkout"
       /\ alertMsg'.totalINR = SumLines(cart)
       /\ alertMsg'.shown = toCurrency(SumLines(cart), currency)
       /\ cart' = <<>>]_vars

\* a checkout reported a total that a setQty below zero had just changed
C6_Witness ==
  /\ alertMsg.kind = "checkout" /\ alertMsg.totalINR < 0
  /\ lastOp.op = "checkout" /\ cart = <<>>

SetQtyPost(c, c2, id, qty) ==
  /\ Len(c2) = Len(c)
  /\ \A i \in DOMAIN c :
       IF c[i].id = id THEN c2[i] = [c[i] EXCEPT !.qty = qty] ELSE c2[i] = c[i]
  /\ ~HasLine(c, id) => c2 = c

\* C7: setQuantity(id, qty) sets the quantity of the line with that id to qty
\* exactly, also for 0 and negative qty; every other line is unchanged, and
\* without a line of that id the cart is unchanged.
C7_SetQtyVerbatim ==
  [][\A id \in IdInputs, qty \in QtyInputs :
       setQty(id, qty) => SetQtyPost(cart, cart', id, qty)]_vars

\* a negative quantity was stored in one of two lines
C7_Witness ==
  /\ lastOp.op = "setQty" /\ lastOp.hit /\ lastOp.qty < 0 /\ Len(cart) = 2
  /\ \E i \in DOMAIN cart : cart[i].qty = lastOp.qty

RemovePost(c, c2, id) ==
  IF HasLine(c, id)
    THEN \E k \in DOMAIN c :
           /\ c[k].id = id
           /\ c2 = SubSeq(c, 1, k - 1) \o SubSeq(c, k + 1, Len(c))
    ELSE c2 = c

\* C8: remove(id) deletes the line with that id and leaves every other line
\* unchanged and in the same relative order; without such a line the cart is
\* unchanged.
C8_RemoveFrame ==
  [][\A id \in IdInputs : removeItem(id) => RemovePost(cart, cart', id)]_vars

\* a line was removed and another one is still there
C8_Witness == lastOp.op = "remove" /\ lastOp.hit /\ Len(cart) >= 1

\* what C9 says apart from the identifiers: N entries after N submissions,
\* newest first, each with the field values it was submitted with
RfqListKept ==
  /\ Len(rfqs) = Len(submitLog)
  /\ \A i \in DOMAIN rfqs :
       LET d == submitLog[Len(submitLog) + 1 - i] IN
         /\ rfqs[i].productId = d.productId /\ rfqs[i].qty = d.qty
         /\ rfqs[i].location = d.location /\ rfqs[i].target = d.target
         /\ rfqs[i].notes = d.notes
  /\ \A i \in DOMAIN rfqs : i < Len(rfqs) => rfqs[i].date >= rfqs[i + 1].date

\* C9: after N RFQ submissions the RFQ list has exactly N entries, newest
\* first, with pairwise distinct identifiers, each entry with the field values
\* it was submitted with.
C9_RfqList ==
  /\ RfqListKept
  /\ \A i, j \in DOMAIN rfqs : rfqs[i].id = rfqs[j].id => i = j

TiersValid(p) ==
  /\ \A i \in DOMAIN p.bulkTiers : p.bulkTiers[i].priceINR <= p.priceINR
  /\ \A i \in DOMAIN p.bulkTiers :
       i < Len(p.bulkTiers) =>
         /\ p.bulkTiers[i].min <= p.bulkTiers[i + 1].min
         /\ p.bulkTiers[i + 1].priceINR <= p.bulkTiers[i].priceINR

\* C10: every product in the catalog, initial or saved with any price and MOQ
\* input, has bulk tiers sorted ascending by threshold with each tier's price
\* no greater than the base price and no greater than the previous tier's.
C10_TiersValid == \A p \in Range(products) : TiersValid(p)

----------------------------------------------------------------------------
(* Properties of the listing *)

\* text t occurs in text s when the case of the letters is ignored
ContainsNoCase(s, t) ==
  \E i \in 0..(Len(s) - Len(t)) :
    \A j \in 1..Len(t) : LowerChar(s[i + j]) = LowerChar(t[j])

\* the text is empty or has nothing but spaces in it
Blank(t) == \A i \in DOMAIN t : t[i] = " "

InCategory(p, cat) == cat = "All" \/ p.category = cat

\* the same products, each as often, in any order
SameProducts(a, b) ==
  /\ Len(a) = Len(b)
  /\ \A x \in Range(a) \cup Range(b) :
       Cardinality({i \in DOMAIN a : a[i] = x})
         = Cardinality({i \in DOMAIN b : b[i] = x})

\* the products the claim lets through, in catalog order
NamedBy(prods, qq, cat) ==
  SelectSeq(prods, LAMBDA p : ContainsNoCase(Chars[p.name], qq) /\ InCategory(p, cat))

\* the same, with a blank query letting every name through
KeptBy(prods, qq, cat) ==
  SelectSeq(prods, LAMBDA p :
    (Blank(qq) \/ ContainsNoCase(Chars[p.name], qq)) /\ InCategory(p, cat))

MilkExample ==
  (/\ q = <<"m", "i", "l", "k">> /\ category = "All" /\ sort = "relevance"
   /\ products = initialProducts)
    => filtered = <<initialProducts[3]>>

\* C12 as stated: the listing holds exactly the catalog products whose name
\* contains the query as a case-insensitive substring (every product when the
\* query is empty) and whose category is the selected one (every category
\* under "All"); under relevance they are in catalog order; "milk", "All",
\* relevance on the five initial products gives exactly Fresh Cow Milk.
C12_Original ==
  /\ SameProducts(filtered, NamedBy(products, q, category))
  /\ sort = "relevance" => filtered = NamedBy(products, q, category)
  /\ MilkExample

\* C12 as amended: the same, with every product let through by name when the
\* query is empty or consists of white space only.
C12_Listing ==
  /\ SameProducts(filtered, KeptBy(products, q, category))
  /\ sort = "relevance" => filtered = KeptBy(products, q, category)
  /\ MilkExample

\* a query of one space lists a saved product whose name has no space in it
C12_Witness ==
  /\ q = <<" ">> /\ Saved >= 1
  /\ \E i \in DOMAIN filtered : ~ContainsNoCase(Chars[filtered[i].name], q)

\* C13: deriving the listing from a listing, with the same query, category
\* and sort key, gives that listing again.
C13_Idempotent == Filtered(filtered, q, category, sort).arr = filtered

\* a filtered listing sorted by rating in which two different products have
\* the same rating
C13_Witness ==
  /\ sort = "ratingDesc" /\ Len(filtered) < Len(products)
  /\ \E i \in DOMAIN filtered :
       /\ i < Len(filtered)
       /\ filtered[i].rating = filtered[i + 1].rating
       /\ filtered[i] # filtered[i + 1]

\* C14: no change of the query, the category or the sort key changes the
\* catalog, and when the sort key becomes relevance, after any other key, the
\* listing shows the products it lets through in catalog order.
C14_CatalogKept ==
  [][listingVars' # listingVars =>
       /\ products' = products
       /\ sort' = "relevance" =>
            Filtered(products', q', category', sort').arr
              = KeptBy(products, q', category')]_vars

\* relevance was selected after a price sort of a catalog with a saved product
C14_Witness ==
  /\ lastOp.op = "setSort" /\ lastOp.hit /\ sort = "relevance" /\ Saved >= 1
  /\ Len(filtered) >= 2 /\ filtered = KeptBy(products, q, category)

Reverse(s) == [i \in DOMAIN s |-> s[Len(s) + 1 - i]]

NoSharedPrice(s) ==
  \A i, j \in DOMAIN s : s[i].priceINR = s[j].priceINR => i = j

\* C15: when no two listed products share a base price, the listing sorted by
\* price ascending is the exact reverse of the listing sorted by price
\* descending.
C15_AscReversesDesc ==
  LET asc == Filtered(products, q, category, "priceAsc").arr
      desc == Filtered(products, q, category, "priceDesc").arr
  IN NoSharedPrice(asc) => asc = Reverse(desc)

\* three or more products, a saved one among them, no two at the same price,
\* are listed by price descending
C15_Witness ==
  /\ sort = "priceDesc" /\ Len(filtered) >= 3 /\ NoSharedPrice(filtered)
  /\ \E i \in DOMAIN filtered : filtered[i].farmerId = "f1" /\ filtered[i].rating = 46
  /\ filtered[1].priceINR > filtered[Len(filtered)].priceINR

----------------------------------------------------------------------------
(* Properties of the catalog *)

\* C16: saving a product puts it at the front of the catalog with the earlier
\* products unchanged and in the same order behind it; no step removes a
\* product, the catalog only grows.
C16_SaveAtFront ==
  [][/\ \A form \in FormInputs, id \in RandIds :
          saveProduct(handleSubmit(form, id)) =>
            products' = <<handleSubmit(form, id)>> \o products
     /\ \/ products' = products
        \/ Len(products') = Len(products) + 1 /\ Tail(products') = products]_vars

\* two different products were saved, the second in front of the first, in
\* front of the initial five
C16_Witness ==
  /\ lastOp.op = "saveProduct" /\ Saved = 2 /\ products[1] # products[2]
  /\ SubSeq(products, 3, Len(products)) = initialProducts

\* the text is an optionally signed decimal number
Numeric(s) == s # <<>> /\ ~Number(s).nan

\* C17: for every form input the stored product has a non-negative integer
\* base price, a non-negative integer stock and a positive integer MOQ; a
\* non-numeric or empty price or stock is stored as 0, a non-numeric or empty
\* MOQ as 1.
C17_StoredValid ==
  [][\A form \in FormInputs, id \in RandIds :
       saveProduct(handleSubmit(form, id)) =>
         LET p == products'[1] IN
           /\ p.priceINR >= 0 /\ p.stock >= 0 /\ p.moq >= 1
           /\ ~Numeric(form.priceINR) => p.priceINR = 0
           /\ ~Numeric(form.stock) => p.stock = 0
           /\ ~Numeric(form.moq) => p.moq = 1]_vars

----------------------------------------------------------------------------
(* Properties of the model-viewer wrapper *)

\* C18: for every mount of the wrapper, also one that follows the unmount of
\* an earlier one while the script element stays in the document: when the
\* script has failed to load or the model element has raised an error, the
\* wrapper shows the fallback image, and a mounted wrapper that shows the
\* fallback image keeps showing it.
C18_FallbackShown ==
  /\ []((page = "Home" /\ (mvScript = "failed" \/ modelError))
          => View = "fallback")
  /\ [][(page = "Home" /\ page' = "Home" /\ error) => error']_vars

----------------------------------------------------------------------------
(* Properties of the cart under the page's controls *)

\* C19: with the cart changed through Add, plus, minus, Remove and Proceed to
\* Checkout only, every cart line has a quantity of at least 1, and so has
\* the cart after Add of a product whose MOQ is negative or 0 (a missing MOQ
\* is falsy as 0 is).
C19_QtyAtLeastOne ==
  /\ \A i \in DOMAIN cart : cart[i].qty >= 1
  /\ \A p \in Range(filtered), m \in {-3, 0} :
       LET c == AddUpdater(cart, [p EXCEPT !.moq = m]) IN
         \A i \in DOMAIN c : c[i].qty >= 1

\* minus was pressed on a line of quantity 1 whose product has a negative MOQ
C19_Witness ==
  /\ lastOp.op = "setQty" /\ lastOp.hit /\ lastOp.qty = 1
  /\ \E i \in DOMAIN cart : cart[i].moq < 1 /\ cart[i].qty = 1

====
